---- MODULE Spec2Model ----
(***************************************************************************)
(* Model of the MFEM <-> Ginkgo bridge of linalg/ginkgo.cpp:               *)
(*   - GinkgoExecutor construction (explicit kind and best match),         *)
(*   - GinkgoPreconditioner (construction, SetOperator, Mult),             *)
(*   - GinkgoIterativeSolver (construction of CG / IR / GMRES / CB-GMRES,  *)
(*     SetOperator, Mult, SetKDim, the stopping criteria and the loggers), *)
(*   - OperatorWrapper::apply_impl, plain and scaled,                      *)
(*   - AMGPreconditioner (the factories its constructor builds).           *)
(*                                                                         *)
(* MFEM_VERIFY / MFEM_ABORT raise a fatal MFEM error at the line where     *)
(* they stand: the operation stops there, and every assignment made before *)
(* that line has taken effect.  The model records the error in lastCall    *)
(* and keeps the object as the code left it at that line.                  *)
(*                                                                         *)
(* The backend (Ginkgo) is external.  Its calls are modelled by what the   *)
(* bridge can observe of them: generate binds a factory to the operator it *)
(* is given, or throws; apply runs some iterations and reports through the *)
(* attached logger, or throws.                                             *)
(***************************************************************************)
EXTENDS Integers, Sequences, FiniteSets, TLC

VARIABLES
    \* ---- environment of GinkgoExecutor construction
    numCuda,                  \* gko::CudaExecutor::get_num_devices()
    numHip,                   \* gko::HipExecutor::get_num_devices()
    useCuda,                  \* MFEM_USE_CUDA defined
    useHip,                   \* MFEM_USE_HIP defined
    \* ---- GinkgoExecutor
    executor,                 \* GinkgoExecutor::executor ("null" when unset)
    execCall,                 \* the constructor call that produced it, and how it ended
    \* ---- GinkgoPreconditioner
    precKind,                 \* "factory" (has precond_gen) or "mfem" (MFEMPreconditioner)
    generated_precond,
    has_generated_precond,
    prec_applied,             \* the last Mult of the preconditioner: what it handed
                              \*   to the generated instance and how it ended
    \* ---- GinkgoIterativeSolver
    built,                    \* "none" before the solver object is constructed, else its method
    solver_gen,
    system_oper,
    solver,
    needs_wrapped_vecs,
    sub_op_needs_wrapped_vecs,
    iterative_mode,
    max_iter,
    print_level,
    converged,
    final_iter,
    applied,                  \* the last operation, seen from outside, when it was a Mult:
                              \*   what it handed to the backend solve, what it left in
                              \*   the caller's y and what it wrote to mfem::err
    last_set_op,              \* the argument of the most recent SetOperator on the solver
    prior_kind,               \* the kind of handle that SetOperator found bound
    loggers,                  \* the loggers attached to combined_factory and to the
                              \*   generated solver, by the Mult call that made them
    kdim,                     \* GMRESSolver / CBGMRESSolver: m, the factory's
                              \*   krylov_dim and the generated solver's dimension
    lastCall,                 \* the last public operation and how it ended
    \* ---- OperatorWrapper
    wcall,                    \* one call of apply_impl: its operands and what it left
    \* ---- AMGPreconditioner
    amg,                      \* the factories its constructor built
    \* ---- the backend solve of one Mult, iteration by iteration
    run

envVars  == <<numCuda, numHip, useCuda, useHip>>
execVars == <<executor, execCall>>
precVars == <<precKind, generated_precond, has_generated_precond, prec_applied>>
solvVars == <<built, solver_gen, system_oper, solver, needs_wrapped_vecs,
              sub_op_needs_wrapped_vecs, iterative_mode, max_iter, print_level,
              converged, final_iter, applied, last_set_op, prior_kind,
              loggers, kdim>>
vars     == <<envVars, execVars, precVars, solvVars, lastCall, wcall, amg, run>>

-----------------------------------------------------------------------------
(* Bounds *)
MaxDevices == 2      \* device counts 0..MaxDevices
MaxDim     == 2      \* operator heights and widths, vector lengths 1..MaxDim
MaxIters   == 1      \* iterations one backend solve is followed for
MaxVal     == 1      \* vector entries and scalar operands 0..MaxVal
MaxRes     == 2      \* residual norms 0..MaxRes
MaxKDim    == 2      \* Krylov dimensions 0..MaxKDim
MaxLevel   == 2      \* multigrid levels 0..MaxLevel
MaxCap     == 2      \* iteration caps 0..MaxCap of a followed solve
MaxScalarDim == 2    \* rows and columns of a scalar operand 0..MaxScalarDim

-----------------------------------------------------------------------------
(* GinkgoExecutor *)

ExecTypes == {"REFERENCE", "OMP", "CUDA", "HIP", "INVALID"}

NoCall == [ctor |-> "none", exec_type |-> "none", allowsCuda |-> FALSE,
           allowsHip |-> FALSE, result |-> "none", err |-> "none"]

ExplicitCall(t, res, msg) ==
    [ctor |-> "explicit", exec_type |-> t, allowsCuda |-> FALSE,
     allowsHip |-> FALSE, result |-> res, err |-> msg]

BestMatchCall(ac, ah, res, msg) ==
    [ctor |-> "bestmatch", exec_type |-> "none", allowsCuda |-> ac,
     allowsHip |-> ah, result |-> res, err |-> msg]

\* The executor member after GinkgoExecutor(ExecType): "null" when no branch
\* assigns it (a shared_ptr is default-constructed empty).
ExplicitExecutor(t) ==
    CASE t = "REFERENCE" -> "reference"
      [] t = "OMP"       -> "omp"
      [] t = "CUDA"      -> IF numCuda > 0 /\ useCuda THEN "cuda" ELSE "null"
      [] t = "HIP"       -> IF numHip > 0 /\ useHip THEN "hip" ELSE "null"
      [] OTHER           -> "null"

\* How GinkgoExecutor(ExecType) ends: MFEM_ABORT only in the CUDA branch; the
\* HIP branch and the default branch write to mfem::err and return.
ExplicitResult(t) ==
    IF t = "CUDA" /\ ~(numCuda > 0) THEN "abort" ELSE "returned"

ExplicitMessage(t) ==
    CASE t = "CUDA" /\ ~(numCuda > 0) -> "no_cuda_devices"
      [] t = "HIP" /\ ~(numHip > 0)   -> "no_hip_devices"
      [] t = "INVALID"                -> "invalid_exec_type"
      [] OTHER                        -> "none"

CreateExplicit(t) ==
    /\ executor' = ExplicitExecutor(t)
    /\ execCall' = ExplicitCall(t, ExplicitResult(t), ExplicitMessage(t))
    /\ UNCHANGED <<envVars, wcall, amg, run, precVars, solvVars, lastCall>>

\* The executor member after GinkgoExecutor(Device&).
BestMatchExecutor(ac, ah) ==
    IF ac THEN (IF numCuda > 0 /\ useCuda THEN "cuda" ELSE "null")
    ELSE IF ah THEN (IF numHip > 0 /\ useHip THEN "hip" ELSE "null")
    ELSE "omp"

BestMatchResult(ac, ah) ==
    IF ac THEN (IF numCuda > 0 THEN "returned" ELSE "abort")
    ELSE IF ah THEN (IF numHip > 0 THEN "returned" ELSE "abort")
    ELSE "returned"

BestMatchMessage(ac, ah) ==
    IF ac THEN (IF numCuda > 0 THEN "none" ELSE "no_cuda_devices")
    ELSE IF ah THEN (IF numHip > 0 THEN "none" ELSE "no_hip_devices")
    ELSE "none"

\* Device::Allows(CUDA_MASK) can hold only in a build with MFEM_USE_CUDA, and
\* Device::Allows(HIP_MASK) only in one with MFEM_USE_HIP.
CreateBestMatch(ac, ah) ==
    /\ ac => useCuda
    /\ ah => useHip
    /\ executor' = BestMatchExecutor(ac, ah)
    /\ execCall' = BestMatchCall(ac, ah, BestMatchResult(ac, ah),
                                 BestMatchMessage(ac, ah))
    /\ UNCHANGED <<envVars, wcall, amg, run, precVars, solvVars, lastCall>>

-----------------------------------------------------------------------------
(* Operators handed to SetOperator *)

\* Two matrices of one shape differ in their sparsity pattern.
Patterns == {"P1", "P2"}

\* An mfem::Operator with Height() = h and Width() = w: a SparseMatrix
\* (sparse, with a sparsity pattern) or any other Operator, of which the
\* bridge reads only Height().
SparseOperators == [sparse : {TRUE}, h : 1..MaxDim, w : 1..MaxDim, pat : Patterns]
GenericOperators == {[sparse |-> FALSE, h |-> n, w |-> n, pat |-> "none"] : n \in 1..MaxDim}
Operators == SparseOperators \cup GenericOperators

NoOp == [sparse |-> FALSE, h |-> 0, w |-> 0, pat |-> "none"]

\* A gko::LinOp held in a shared_ptr: kind "null" (empty pointer), "csr"
\* (gko::matrix::Csr view of a SparseMatrix), "wrap" (OperatorWrapper), "gko"
\* (an object generated by a backend factory); op is the operator it was
\* built from; rows and cols are its get_size().
NullOp == [kind |-> "null", op |-> NoOp, rows |-> 0, cols |-> 0]

CsrView(op) == [kind |-> "csr", op |-> op, rows |-> op.h, cols |-> op.w]

\* OperatorWrapper(executor, op.Height(), &op): a square LinOp of size Height().
OperatorWrapper(op) == [kind |-> "wrap", op |-> op, rows |-> op.h, cols |-> op.h]

\* What a backend factory generates for a LinOp: an object of its size.
Generated(lin) == [kind |-> "gko", op |-> lin.op, rows |-> lin.rows, cols |-> lin.cols]

NoSolverCall == [name |-> "none", op |-> NoOp, err |-> "none"]
Call(n, op, e) == [name |-> n, op |-> op, err |-> e]

-----------------------------------------------------------------------------
(* GinkgoPreconditioner *)

\* GinkgoPreconditioner::SetOperator, in the order of the code: the reset of
\* a prior instance, then the SparseMatrix check, then precond_gen->generate
\* (backendOk: the backend call returns; otherwise it throws).  It is taken
\* on preconditioners that carry a factory precond_gen; an MFEMPreconditioner
\* carries none and is used as constructed.
PrecAfterReset == IF has_generated_precond THEN NullOp ELSE generated_precond

\* Variant: the SparseMatrix check is missing.
PrecSetOperatorError_NoCheck(op, backendOk) ==
    IF ~backendOk THEN "backend_exception" ELSE "none"

PrecSetOperatorError(op, backendOk) ==
    IF ~op.sparse THEN "not_a_sparse_matrix"
    ELSE IF ~backendOk THEN "backend_exception"
    ELSE "none"

PrecSetOperatorInstance(op, backendOk) ==
    IF PrecSetOperatorError(op, backendOk) = "none" THEN Generated(CsrView(op))
    ELSE PrecAfterReset

\* Variant: the flag is raised before the backend generates the instance.
PrecSetOperatorFlag_BeforeGenerate(op, backendOk) == op.sparse

PrecSetOperatorFlag(op, backendOk) ==
    IF PrecSetOperatorError(op, backendOk) = "none" THEN TRUE
    ELSE IF has_generated_precond THEN FALSE
    ELSE has_generated_precond

\* Lines 855-858: y as the generated instance receives it.
PrecInitialGuess(im) == IF im THEN "caller" ELSE "zero"

\* Lines 862-875: x and y are handed on as Dense views of the caller's data
\* (FALSE), whatever the generated instance is.
PrecWrapsVectors == FALSE

PrecSetOperator(op, backendOk) ==
    /\ precKind = "factory"
    \* the backend is reached only past the SparseMatrix check
    /\ ~op.sparse => backendOk
    /\ generated_precond' = PrecSetOperatorInstance(op, backendOk)
    /\ has_generated_precond' = PrecSetOperatorFlag(op, backendOk)
    /\ lastCall' = Call("PrecSetOperator", op, PrecSetOperatorError(op, backendOk))
    /\ UNCHANGED <<envVars, wcall, amg, run, execVars, precKind, prec_applied,
                   solvVars>>

\* No Mult of the preconditioner yet.
NoPrecMult == [called |-> FALSE, wrapped |-> FALSE, y0 |-> "none",
               iterative_mode |-> FALSE, err |-> "none"]

\* Lines 852-853, then generated_precond->apply: the backend checks the
\* vector lengths against the instance's size (gko::DimensionMismatch), and
\* OperatorWrapper::apply_impl casts its operands with
\* gko::as<VectorWrapper> (lines 201-202), which throws gko::NotSupported
\* for any other type.
PrecMultError(nx, ny) ==
    CASE generated_precond.kind = "null" -> "not_initialized"
      [] executor = "null"               -> "no_executor"
      [] nx # generated_precond.cols \/ ny # generated_precond.rows
                                         -> "backend_exception"
      [] generated_precond.kind = "wrap" /\ ~PrecWrapsVectors
                                         -> "not_supported"
      [] OTHER                           -> "none"

\* GinkgoPreconditioner::Mult on x of length nx and y of length ny; im is
\* the value of the public member iterative_mode at the call.
PrecMult(nx, ny, im) ==
    /\ prec_applied' =
          IF PrecMultError(nx, ny) \in {"not_initialized", "no_executor"}
          THEN [NoPrecMult EXCEPT !.iterative_mode = im,
                                  !.err = PrecMultError(nx, ny)]
          ELSE [called |-> TRUE, wrapped |-> PrecWrapsVectors,
                y0 |-> PrecInitialGuess(im), iterative_mode |-> im,
                err |-> PrecMultError(nx, ny)]
    /\ lastCall' = Call("PrecMult", NoOp, PrecMultError(nx, ny))
    /\ UNCHANGED <<envVars, wcall, amg, run, execVars, precKind, generated_precond,
                   has_generated_precond, solvVars>>

-----------------------------------------------------------------------------
(* GinkgoIterativeSolver: construction *)

DefaultMaxIter == 10
DefaultPrintLevel == -1
\* converged and final_iter are not assigned by the constructor.
Unset == -2

NullSolver == [live |-> FALSE, lin |-> NullOp, prec |-> NullOp]
\* A solver factory: its method, the factory of an inner solver (inner_generic:
\* that solver was bound to a generic operator when it was handed over), and
\* the preconditioner bound to it or to its inner solver.
NoFactory  == [method |-> "none", inner |-> "none", inner_generic |-> FALSE,
               precMode |-> "none", prec |-> NullOp]
NotApplied == [ran |-> FALSE, wrapped |-> FALSE, y0 |-> "none", y |-> "caller",
               errOut |-> "none", num_iterations |-> 0, has_converged |-> FALSE,
               mismatch |-> FALSE, res_norm |-> 0, imp_sq |-> 0,
               final_res_norm |-> 0]

\* No logger attached: combined_factory as update_stop_factory builds it
\* (lines 139-182), and a solver as generate returns it.
NoLoggers == [criteria |-> {}, solver |-> {}]

\* A solver without Krylov dimension.
NoKDim == [m |-> Unset, krylov_dim |-> Unset, solver_dim |-> Unset, set |-> Unset]

\* Variant: the constructor always passes the preconditioner's factory.
BindingMode_AlwaysFactory(withPrec) == IF ~withPrec THEN "none" ELSE "factory"

\* The binding mode a solver constructor takes for a GinkgoPreconditioner:
\* the generated instance when HasGeneratedPreconditioner(), else its factory.
BindingMode(withPrec) ==
    IF ~withPrec THEN "none"
    ELSE IF has_generated_precond THEN "generated"
    ELSE "factory"

BoundInstance(withPrec) ==
    IF BindingMode(withPrec) = "generated" THEN generated_precond ELSE NullOp

\* Variant: the constructor does not look for a wrapped preconditioner.
CGNeedsWrappedVecs_Never(withPrec) == FALSE

\* dynamic_cast<const OperatorWrapper*>(GetGeneratedPreconditioner().get())
\* in the generated-instance branch of CGSolver::CGSolver.
CGNeedsWrappedVecs(withPrec) ==
    /\ BindingMode(withPrec) = "generated"
    /\ generated_precond.kind = "wrap"

CGFactory(withPrec) ==
    [method |-> "cg", inner |-> "none", inner_generic |-> FALSE,
     precMode |-> BindingMode(withPrec), prec |-> BoundInstance(withPrec)]

\* GinkgoIterativeSolver::GinkgoIterativeSolver, then the body of a subclass
\* constructor that leaves factory gen and sets both flags to wraps.  im is
\* the value the caller gives the public member iterative_mode before any
\* Mult.  The executor handed in is one a constructor returned non-null.
Construct(gen, wraps, im) ==
    /\ built = "none"
    /\ executor # "null"
    /\ built' = gen.method
    /\ solver_gen' = gen
    /\ system_oper' = NullOp
    /\ solver' = NullSolver
    /\ max_iter' = DefaultMaxIter
    /\ print_level' = DefaultPrintLevel
    /\ needs_wrapped_vecs' = wraps
    /\ sub_op_needs_wrapped_vecs' = wraps
    /\ iterative_mode' = im
    /\ lastCall' = Call("Construct", NoOp, "none")
    /\ applied' = NotApplied
    /\ UNCHANGED <<envVars, wcall, amg, run, execVars, precVars, converged, final_iter,
                   last_set_op, prior_kind, loggers>>

\* CGSolver(exec) and CGSolver(exec, preconditioner).
ConstructCG(withPrec, im) ==
    /\ Construct(CGFactory(withPrec), CGNeedsWrappedVecs(withPrec), im)
    /\ UNCHANGED kdim

\* UsesVectorWrappers() of the inner solver handed to IRSolver: a CGSolver
\* built as above, on which SetOperator may have bound a generic operator.
InnerUsesVectorWrappers(withPrec, innerGeneric) ==
    CGNeedsWrappedVecs(withPrec) \/ innerGeneric

IRFactory(withInner, withPrec, innerGeneric) ==
    IF withInner
    THEN [method |-> "ir", inner |-> "cg", inner_generic |-> innerGeneric,
          precMode |-> BindingMode(withPrec), prec |-> BoundInstance(withPrec)]
    ELSE [NoFactory EXCEPT !.method = "ir"]

\* IRSolver(exec) and IRSolver(exec, inner_solver).
ConstructIR(withInner, withPrec, innerGeneric, im) ==
    /\ ~withInner => (~withPrec /\ ~innerGeneric)
    /\ Construct(IRFactory(withInner, withPrec, innerGeneric),
                 withInner /\ InnerUsesVectorWrappers(withPrec, innerGeneric), im)
    /\ UNCHANGED kdim

\* GMRESSolver and CBGMRESSolver: the factory is given with_krylov_dim(m)
\* unless m is 0 (lines 629-641, 650-700, 721-795); the preconditioner is
\* bound as in CGSolver.
GMRESFactory(method, withPrec) ==
    [method |-> method, inner |-> "none", inner_generic |-> FALSE,
     precMode |-> BindingMode(withPrec), prec |-> BoundInstance(withPrec)]

\* krylov_dim of a factory on which with_krylov_dim was not called.
BackendDefault == -1

FactoryKDim(dim) == IF dim = 0 THEN BackendDefault ELSE dim

\* Dimensions are counts: the conversions of m to unsigned long keep them.
ConstructGMRES(method, dim, withPrec, im) ==
    /\ Construct(GMRESFactory(method, withPrec), CGNeedsWrappedVecs(withPrec), im)
    /\ kdim' = [m |-> dim, krylov_dim |-> FactoryKDim(dim), solver_dim |-> Unset,
                set |-> Unset]

\* Variant: the generated solver keeps its dimension.
SolverDimAfterSetKDim_Stale(d) == kdim.solver_dim

\* Lines 708-711, 807-810.
SolverDimAfterSetKDim(d) == IF solver.live THEN d ELSE kdim.solver_dim

\* GMRESSolver::SetKDim and CBGMRESSolver::SetKDim; set records the argument.
SetKDim(d) ==
    /\ built \in {"gmres", "cbgmres"}
    /\ kdim' = [m |-> d, krylov_dim |-> d,
                solver_dim |-> SolverDimAfterSetKDim(d), set |-> d]
    /\ lastCall' = Call("SetKDim", NoOp, "none")
    /\ applied' = NotApplied
    /\ UNCHANGED <<envVars, wcall, amg, run, execVars, precVars, built, solver_gen,
                   system_oper, solver, needs_wrapped_vecs, sub_op_needs_wrapped_vecs,
                   iterative_mode, max_iter, print_level, converged, final_iter,
                   last_set_op, prior_kind, loggers>>

-----------------------------------------------------------------------------
(* GinkgoIterativeSolver::SetOperator *)

\* Variant: the flag is reset with every old binding.
FlagAfterReset_Always ==
    IF system_oper.kind # "null" THEN FALSE ELSE needs_wrapped_vecs

\* Variant: the flag is not reset with the old binding.
FlagAfterReset_NoReset == needs_wrapped_vecs

\* Lines 413-427: a bound solver drops its handle and its generated solver,
\* and the flag when only the old system operator had raised it.
FlagAfterReset ==
    IF system_oper.kind # "null"
    THEN (IF needs_wrapped_vecs /\ ~sub_op_needs_wrapped_vecs
          THEN FALSE ELSE needs_wrapped_vecs)
    ELSE needs_wrapped_vecs

HandleAfterReset == IF system_oper.kind # "null" THEN NullOp ELSE system_oper

SolverAfterReset == IF system_oper.kind # "null" THEN NullSolver ELSE solver

\* Lines 429-463: the classification of op.
NotSquare(op) == op.sparse /\ op.h # op.w

Adapt(op) == IF op.sparse THEN CsrView(op) ELSE OperatorWrapper(op)

\* The preconditioner a generated solver holds: the instance stored in the
\* factory, or one the stored preconditioner factory generates for lin.
SolverPrec(gen, lin) ==
    CASE gen.precMode = "generated" -> gen.prec
      [] gen.precMode = "factory"   -> Generated(lin)
      [] OTHER                      -> NullOp

\* solver_gen->generate(system_oper).  The backend refuses a generated
\* preconditioner whose size differs from the system operator's
\* (gko::DimensionMismatch); backendOk = FALSE is any other exception.
GenerateThrows(gen, lin, backendOk) ==
    \/ ~backendOk
    \/ /\ gen.precMode = "generated"
       /\ (gen.prec.rows # lin.rows \/ gen.prec.cols # lin.cols)

Generate(gen, lin) == [live |-> TRUE, lin |-> lin, prec |-> SolverPrec(gen, lin)]

SetOperatorError(op, backendOk) ==
    IF NotSquare(op) THEN "not_square"
    ELSE IF GenerateThrows(solver_gen, Adapt(op), backendOk) THEN "backend_exception"
    ELSE "none"

SetOperatorFlag(op) ==
    IF NotSquare(op) THEN FlagAfterReset
    ELSE IF op.sparse THEN FlagAfterReset
    ELSE TRUE

SetOperatorHandle(op) ==
    IF NotSquare(op) THEN HandleAfterReset ELSE Adapt(op)

\* Variant: a solver that exists is kept instead of regenerated.
SetOperatorSolver_KeepOld(op, backendOk) ==
    IF SetOperatorError(op, backendOk) # "none" THEN SolverAfterReset
    ELSE IF solver.live THEN solver
    ELSE Generate(solver_gen, Adapt(op))

SetOperatorSolver(op, backendOk) ==
    IF SetOperatorError(op, backendOk) = "none"
    THEN Generate(solver_gen, Adapt(op))
    ELSE SolverAfterReset

\* Line 466: a GMRES or CB-GMRES solver is generated with the factory's
\* krylov_dim.
GeneratedKDim(op, backendOk) ==
    IF built \in {"gmres", "cbgmres"} /\ SetOperatorSolver(op, backendOk).live
    THEN kdim.krylov_dim
    ELSE Unset

SetOperator(op, backendOk) ==
    /\ built # "none"
    \* the backend is reached only past the square check
    /\ NotSquare(op) => backendOk
    /\ needs_wrapped_vecs' = SetOperatorFlag(op)
    /\ system_oper' = SetOperatorHandle(op)
    /\ solver' = SetOperatorSolver(op, backendOk)
    /\ last_set_op' = op
    /\ prior_kind' = system_oper.kind
    /\ lastCall' = Call("SetOperator", op, SetOperatorError(op, backendOk))
    /\ applied' = NotApplied
    \* the generated solver is a new object, or none
    /\ loggers' = [loggers EXCEPT !.solver = {}]
    /\ kdim' = [kdim EXCEPT !.solver_dim = GeneratedKDim(op, backendOk)]
    /\ UNCHANGED <<envVars, wcall, amg, run, execVars, precVars, built, solver_gen,
                   sub_op_needs_wrapped_vecs, iterative_mode, max_iter,
                   print_level, converged, final_iter>>

-----------------------------------------------------------------------------
(* GinkgoIterativeSolver::Mult *)

\* The three MFEM_VERIFY of lines 285-288, then what stops the backend call:
\* a null solver pointer (the call through it is undefined behaviour; the
\* build's outcome is a crash of the call), or the backend's own check of the
\* vector lengths against the solver's size (gko::DimensionMismatch).
MultError(nx, ny) ==
    CASE system_oper.kind = "null" -> "not_initialized"
      [] executor = "null"         -> "no_executor"
      [] ny # nx                   -> "size_mismatch"
      [] ~solver.live              -> "null_solver"
      [] nx # solver.lin.rows      -> "backend_exception"
      [] OTHER                     -> "none"

Verified(nx, ny) ==
    MultError(nx, ny) \notin {"not_initialized", "no_executor", "size_mismatch"}

\* Variant: y is zeroed whatever iterative_mode says.
InitialGuess_AlwaysZero == "zero"

\* Lines 291-294: y as the backend receives it.
InitialGuess == IF iterative_mode THEN "caller" ELSE "zero"

\* Lines 309-328: VectorWrapper (TRUE) or a Dense view of the caller's data.
WrapsVectors == needs_wrapped_vecs

\* Line 351: convergence_logger->get_num_iterations().
FinalIter(num_iterations) == num_iterations

\* Lines 388-392.
ConvergedFlag(has_converged) == IF has_converged THEN 1 ELSE 0

\* Lines 398-401: written to mfem::err; nothing is raised.
MultErrOut(has_converged) ==
    IF ConvergedFlag(has_converged) = 0 THEN "No convergence!" ELSE "none"

\* Variant: a solve that did not converge is fatal.
MultRaises_OnNoConvergence(has_converged) == ~has_converged

\* Whether Mult raises after the backend solve has returned.
MultRaises(has_converged) == FALSE

\* Variant: y is zeroed before the three checks.
MultY_ZeroFirst(nx, ny) ==
    IF MultError(nx, ny) = "none" THEN "iterate" ELSE InitialGuess

\* The caller's y after the call.
MultY(nx, ny) ==
    IF ~Verified(nx, ny) THEN "caller"
    ELSE IF MultError(nx, ny) = "none" THEN "iterate"
    ELSE InitialGuess

\* The loggers of an earlier Mult call that are still attached.
Aged(attached) == IF attached = {} THEN {} ELSE {"earlier"}

\* Lines 330-345: initialize_ginkgo_log makes the two loggers of this call;
\* the solver's loggers are replaced when print_level is 1, combined_factory's
\* always.  With a null solver and print_level 1 the call ends at line 338.
MultLoggers(nx, ny) ==
    IF ~Verified(nx, ny) \/ (~solver.live /\ print_level = 1) THEN loggers
    ELSE [criteria |-> {"this"},
          solver |-> IF ~solver.live THEN {}
                     ELSE IF print_level = 1 THEN {"this"}
                     ELSE Aged(loggers.solver)]

\* Lines 124, 471-824: the CG-type constructors pass true, IR, GMRES and
\* CB-GMRES false.
UseImplicitResNorm == built = "cg"

\* Lines 362-386: final_res_norm, from a logger that holds the residual norm
\* res_norm and the implicit squared residual norm imp_sq; either is copied
\* to a Dense on the master executor and read there.
FinalResNorm(res_norm, imp_sq) ==
    IF UseImplicitResNorm THEN imp_sq ELSE res_norm

\* x of length nx and y of length ny; the backend solve takes num_iterations
\* iterations and its logger reports has_converged and the residual norm res
\* (and res * res as the implicit squared residual norm).
Mult(nx, ny, num_iterations, has_converged, res) ==
    /\ built # "none"
    /\ num_iterations <= max_iter
    \* the backend's report exists only when the backend solve ran
    /\ MultError(nx, ny) # "none" => (num_iterations = 0 /\ ~has_converged /\ res = 0)
    /\ applied' = IF Verified(nx, ny)
                  THEN [ran |-> MultError(nx, ny) = "none",
                        wrapped |-> WrapsVectors,
                        y0 |-> InitialGuess,
                        y |-> MultY(nx, ny),
                        errOut |-> IF MultError(nx, ny) = "none"
                                   THEN MultErrOut(has_converged) ELSE "none",
                        num_iterations |-> IF MultError(nx, ny) = "none"
                                           THEN num_iterations ELSE 0,
                        has_converged |-> MultError(nx, ny) = "none" /\ has_converged,
                        mismatch |-> FALSE,
                        res_norm |-> res,
                        imp_sq |-> res * res,
                        final_res_norm |-> FinalResNorm(res, res * res)]
                  ELSE [NotApplied EXCEPT !.y = MultY(nx, ny),
                                          !.mismatch = (ny # nx)]
    /\ loggers' = MultLoggers(nx, ny)
    /\ IF MultError(nx, ny) = "none"
       THEN /\ final_iter' = FinalIter(num_iterations)
            /\ converged' = ConvergedFlag(has_converged)
            /\ lastCall' = Call("Mult", NoOp,
                                IF MultRaises(has_converged)
                                THEN "convergence_failure" ELSE "none")
       ELSE /\ UNCHANGED <<final_iter, converged>>
            /\ lastCall' = Call("Mult", NoOp, MultError(nx, ny))
    /\ UNCHANGED <<envVars, wcall, amg, run, execVars, precVars, built, solver_gen,
                   system_oper, solver, needs_wrapped_vecs, sub_op_needs_wrapped_vecs,
                   iterative_mode, max_iter, print_level, last_set_op, prior_kind,
                   kdim>>

\* SetPrintLevel of the solver's interface.
PrintLevels == {-1, 0, 1, 2}

SetPrintLevel(p) ==
    /\ built # "none"
    /\ print_level # p
    /\ print_level' = p
    /\ UNCHANGED <<envVars, wcall, amg, run, execVars, precVars, built, solver_gen, system_oper,
                   solver, needs_wrapped_vecs, sub_op_needs_wrapped_vecs,
                   iterative_mode, max_iter, converged, final_iter,
                   applied, last_set_op, prior_kind, lastCall, loggers, kdim>>

-----------------------------------------------------------------------------
(* OperatorWrapper::apply_impl *)

\* Executors a scalar operand or the wrapper can live on: a host executor and
\* an accelerator whose master is a host executor (lines 36-68).
WrapExecs == {"omp", "cuda"}

Master(e) == IF e \in {"cuda", "hip"} THEN "omp" ELSE e

Vals == 0..MaxVal

\* mfem::Vector of length n.
Vectors(n) == [1..n -> Vals]

\* The wrapped mfem::Operator's Mult, for two operators: y = 2 x, and y = x
\* with its entries in reverse order.
OpKinds == {"double", "reverse"}

OperMult(k, v) ==
    IF k = "double"
    THEN [i \in 1..Len(v) |-> 2 * v[i]]
    ELSE [i \in 1..Len(v) |-> v[Len(v) + 1 - i]]

\* Vector::operator*=(double) and Vector::Add(double, Vector).
Scaled(v, c) == [i \in 1..Len(v) |-> c * v[i]]

Added(v, a, t) == [i \in 1..Len(v) |-> v[i] + a * t[i]]

\* A scalar operand: a Dense<double> of rows x cols on executor exec; val is
\* its entry (0,0) when it has one.
ScalarOperands(sizes, execs) ==
    {s \in [exec : execs, rows : sizes, cols : sizes, val : Vals] :
        s.rows * s.cols = 0 => s.val = 0}

NoScalar == [exec |-> "none", rows |-> 0, cols |-> 0, val |-> 0]

NoWrapCall ==
    [phase |-> "none", impl |-> "none", exec |-> "none", oper |-> "none",
     alpha |-> NoScalar, beta |-> NoScalar, b |-> <<>>, x |-> <<>>,
     alias |-> FALSE, err |-> "none", alpha_f |-> 0, beta_f |-> 0,
     alpha_src |-> "none", beta_src |-> "none",
     oper_in |-> <<>>, x_out |-> <<>>]

\* An OperatorWrapper on executor e around operator k, and the operands of
\* one apply: alias says that b and x wrap the same mfem::Vector.
PendingCall(e, k, alpha, beta, b, x, alias) ==
    [NoWrapCall EXCEPT !.phase = "pending", !.exec = e, !.oper = k,
                       !.alpha = alpha, !.beta = beta, !.b = b, !.x = x,
                       !.alias = alias, !.x_out = x]

\* Lines 197-206.
PlainResult(k, b) == OperMult(k, b)

ApplyPlain ==
    /\ wcall.phase = "pending"
    /\ ~wcall.alias
    /\ wcall' = [wcall EXCEPT !.phase = "done", !.impl = "plain",
                              !.oper_in = wcall.b,
                              !.x_out = PlainResult(wcall.oper, wcall.b)]
    /\ UNCHANGED <<envVars, execVars, precVars, solvVars, lastCall, amg, run>>

\* Lines 217, 225: the size test of one scalar operand.
BadDimension(s) == s.rows > 1 \/ s.cols > 1

\* Lines 234, 247: the scalar lives on a host executor.
HostResident(s) == s.exec = Master(s.exec)

\* Lines 242-245, 255-258: the executor the one-element copy reads from.
CopySource(e) == e

\* Lines 234-262: how one scalar operand is read on the wrapper on executor e:
\* "direct" for at(0, 0), else the executor the copy takes as its source.
ScalarSource(s, e) == IF HostResident(s) THEN "direct" ELSE CopySource(e)

\* Lines 234-262: the values the read of one scalar operand can give.  Entry
\* (0,0) of an operand without entries, and a copy that reads the operand's
\* pointer on an executor other than the one it was allocated on, are
\* undefined: any value.
ScalarValues(s, e) ==
    IF s.rows * s.cols = 0 THEN Vals
    ELSE IF HostResident(s) THEN {s.val}
    ELSE IF CopySource(e) = s.exec THEN {s.val}
    ELSE Vals

\* Line 264: x after the scaling by beta_f.
XScaled(c, beta_f) == Scaled(c.x, beta_f)

\* Line 274: the vector the wrapped operator is applied to (b, which is x
\* itself when the two are one vector).
OperInput(c, beta_f) == IF c.alias THEN XScaled(c, beta_f) ELSE c.b

\* Lines 264-276.
ScaledResult(c, alpha_f, beta_f) ==
    Added(XScaled(c, beta_f), alpha_f, OperMult(c.oper, OperInput(c, beta_f)))

\* Lines 207-279.
ApplyScaled ==
    /\ wcall.phase = "pending"
    /\ IF BadDimension(wcall.alpha) \/ BadDimension(wcall.beta)
       THEN wcall' = [wcall EXCEPT !.phase = "done", !.impl = "scaled",
                                   !.err = "bad_dimension"]
       ELSE \E alpha_f \in ScalarValues(wcall.alpha, wcall.exec),
               beta_f \in ScalarValues(wcall.beta, wcall.exec) :
               wcall' = [wcall EXCEPT
                           !.phase = "done", !.impl = "scaled",
                           !.alpha_f = alpha_f, !.beta_f = beta_f,
                           !.alpha_src = ScalarSource(wcall.alpha, wcall.exec),
                           !.beta_src = ScalarSource(wcall.beta, wcall.exec),
                           !.oper_in = OperInput(wcall, beta_f),
                           !.x_out = ScaledResult(wcall, alpha_f, beta_f)]
    /\ UNCHANGED <<envVars, execVars, precVars, solvVars, lastCall, amg, run>>

-----------------------------------------------------------------------------
(* AMGPreconditioner *)

SmootherTypes == {"JACOBI", "BLOCK_JACOBI", "IC", "PARIC", "CG"}

NullGen == [kind |-> "null", prec |-> "none", skip_sorting |-> FALSE]

\* Lines 1135-1239: smoother_gen and smoother_gen_s after the first switch.
\* In the CG case the float factory is assigned to smoother_gen (line 1232).
SmootherGen(smoother, mixed) ==
    [kind |-> smoother,
     prec |-> IF smoother = "CG" /\ mixed THEN "float" ELSE "double",
     skip_sorting |-> FALSE]

SmootherGenS(smoother, mixed) ==
    IF mixed /\ smoother # "CG"
    THEN [kind |-> smoother, prec |-> "float", skip_sorting |-> FALSE]
    ELSE NullGen

\* Lines 1241-1360.
CoarseSolverGen(coarse, mixed) ==
    [kind |-> coarse, prec |-> IF mixed THEN "float" ELSE "double",
     skip_sorting |-> FALSE]

\* Lines 1362-1394: mg_top_level_gen, mg_level_gen and mg_level_gen_s.
MgTopLevelGen(mixed, skip_sort) ==
    IF skip_sort /\ ~mixed THEN NullGen
    ELSE [kind |-> "amgx_pgm", prec |-> "double", skip_sorting |-> skip_sort]

MgLevelGen(prec) == [kind |-> "amgx_pgm", prec |-> prec, skip_sorting |-> TRUE]

\* Variant: only the mixed-precision branch forces the zero guess.
MgZeroGuess_MixedOnly(mixed, skip_sort) == mixed

\* Lines 1414, 1428, 1442: with_zero_guess of the three branches.
MgZeroGuess(mixed, skip_sort) == TRUE

\* Lines 1412, 1426, 1440: with_max_iters of the three branches.
MgMaxIters(mixed, skip_sort) == 1

\* Lines 1403-1446: precond_gen.
MgFactory(smoother, coarse, mixed, skip_sort) ==
    [pre_smoother |-> IF mixed
                      THEN <<SmootherGen(smoother, mixed), SmootherGenS(smoother, mixed)>>
                      ELSE <<SmootherGen(smoother, mixed)>>,
     mg_level |-> IF mixed THEN <<MgTopLevelGen(mixed, skip_sort), MgLevelGen("float")>>
                  ELSE IF skip_sort THEN <<MgLevelGen("double")>>
                  ELSE <<MgTopLevelGen(mixed, skip_sort), MgLevelGen("double")>>,
     level_selector |-> mixed \/ ~skip_sort,
     coarsest_solver |-> CoarseSolverGen(coarse, mixed),
     max_iters |-> MgMaxIters(mixed, skip_sort),
     zero_guess |-> MgZeroGuess(mixed, skip_sort)]

\* Lines 1398-1402: the selector; the multigrid takes entry selector(level)
\* of each list, counted from 0.
Selector(level) == IF level = 0 THEN 0 ELSE 1

LevelEntry(list, level) ==
    IF Len(list) = 1 THEN list[1] ELSE list[Selector(level) + 1]

NoAMG == [built |-> FALSE]

ConstructAMG(smoother, coarse, mixed, skip_sort) ==
    /\ executor # "null"
    /\ ~amg.built
    /\ amg' = [built |-> TRUE, smoother |-> smoother, coarse_solver |-> coarse,
               use_mixed_prec |-> mixed, skip_sort |-> skip_sort,
               precond_gen |-> MgFactory(smoother, coarse, mixed, skip_sort)]
    /\ UNCHANGED <<envVars, execVars, precVars, solvVars, lastCall, wcall, run>>

-----------------------------------------------------------------------------
(* The backend solve under the criteria of update_stop_factory *)

\* Tolerances whose square roots are integers.
Tols == {0, 1, 4}

Sqrt(t) == CHOOSE r \in 0..t : r * r = t

NoRun == [phase |-> "none"]

\* Lines 146-152, 164-170: the reduction factors handed to the two residual
\* criteria.
RelFactor(c) == IF c.implicit THEN Sqrt(c.rel_tol) ELSE c.rel_tol

AbsFactor(c) == IF c.implicit THEN Sqrt(c.abs_tol) ELSE c.abs_tol

\* The criteria of the backend: residual against initial residual, residual
\* against a threshold, iteration count against a cap.
RelCriterion(c) == c.res <= RelFactor(c) * c.res0

AbsCriterion(c) == c.res <= AbsFactor(c)

IterCriterion(c) == c.iter >= c.max_iter

\* Lines 153-160, 171-179: gko::stop::Combined of the three.
Combined(c) == RelCriterion(c) \/ AbsCriterion(c) \/ IterCriterion(c)

\* The criteria handed to gko::stop::Combined::build().with_criteria, in
\* order, each with the parameter its factory was given.
CombinedCriteria(c) ==
    <<[kind |-> "relative", baseline |-> "initial_resnorm", param |-> RelFactor(c)],
      [kind |-> "absolute", baseline |-> "absolute", param |-> AbsFactor(c)],
      [kind |-> "iteration", baseline |-> "none", param |-> c.max_iter]>>

\* A solve with residual norm res0 before the first iteration.
StartedRun(implicit, rel_tol, abs_tol, cap, res0) ==
    [phase |-> "running", implicit |-> implicit, rel_tol |-> rel_tol,
     abs_tol |-> abs_tol, max_iter |-> cap, res0 |-> res0, res |-> res0,
     iter |-> 0, converged |-> FALSE]

\* The test of the criterion the solver makes before each iteration.
Halt ==
    /\ run.phase = "running"
    /\ Combined(run)
    /\ run' = [run EXCEPT !.phase = "halted",
                          !.converged = RelCriterion(run) \/ AbsCriterion(run)]
    /\ UNCHANGED <<envVars, execVars, precVars, solvVars, lastCall, wcall, amg>>

\* One iteration, which leaves residual norm res.
Iterate(res) ==
    /\ run.phase = "running"
    /\ ~Combined(run)
    /\ run' = [run EXCEPT !.iter = run.iter + 1, !.res = res]
    /\ UNCHANGED <<envVars, execVars, precVars, solvVars, lastCall, wcall, amg>>

-----------------------------------------------------------------------------
(* Specifications *)

\* The executor: any reported device counts and build flags, no executor yet.
InitExec ==
    /\ numCuda \in 0..MaxDevices
    /\ numHip \in 0..MaxDevices
    /\ useCuda \in BOOLEAN
    /\ useHip \in BOOLEAN
    /\ executor = "null"
    /\ execCall = NoCall
    /\ precKind = "factory"
    /\ generated_precond = NullOp
    /\ has_generated_precond = FALSE
    /\ prec_applied = NoPrecMult
    /\ built = "none"
    /\ solver_gen = NoFactory
    /\ system_oper = NullOp
    /\ solver = NullSolver
    /\ needs_wrapped_vecs = FALSE
    /\ sub_op_needs_wrapped_vecs = FALSE
    /\ iterative_mode = FALSE
    /\ max_iter = DefaultMaxIter
    /\ print_level = DefaultPrintLevel
    /\ converged = Unset
    /\ final_iter = Unset
    /\ applied = NotApplied
    /\ last_set_op = NoOp
    /\ prior_kind = "none"
    /\ lastCall = NoSolverCall
    /\ loggers = NoLoggers
    /\ kdim = NoKDim
    /\ wcall = NoWrapCall
    /\ amg = NoAMG
    /\ run = NoRun

NextExec ==
    \/ \E t \in ExecTypes : CreateExplicit(t)
    \/ \E ac \in BOOLEAN, ah \in BOOLEAN : CreateBestMatch(ac, ah)

SpecExec == InitExec /\ [][NextExec]_vars

\* The solver and its preconditioner: GinkgoExecutor(OMP) has been
\* constructed, and a preconditioner object on it (a GinkgoPreconditioner
\* with a factory, or an MFEMPreconditioner); the solver has not.
Init ==
    /\ executor = "omp"
    /\ execCall = ExplicitCall("OMP", "returned", "none")
    /\ numCuda = 0
    /\ useCuda = FALSE
    /\ numHip = 0
    /\ useHip = FALSE
    /\ \/ /\ precKind = "factory"
          /\ generated_precond = NullOp
          /\ has_generated_precond = FALSE
       \/ /\ precKind = "mfem"
          /\ \E n \in 1..MaxDim :
                generated_precond =
                    OperatorWrapper([sparse |-> FALSE, h |-> n, w |-> n, pat |-> "none"])
          /\ has_generated_precond = TRUE
    /\ prec_applied = NoPrecMult
    /\ built = "none"
    /\ solver_gen = NoFactory
    /\ system_oper = NullOp
    /\ solver = NullSolver
    /\ needs_wrapped_vecs = FALSE
    /\ sub_op_needs_wrapped_vecs = FALSE
    /\ iterative_mode = FALSE
    /\ max_iter = DefaultMaxIter
    /\ print_level = DefaultPrintLevel
    /\ converged = Unset
    /\ final_iter = Unset
    /\ applied = NotApplied
    /\ last_set_op = NoOp
    /\ prior_kind = "none"
    /\ lastCall = NoSolverCall
    /\ loggers = NoLoggers
    /\ kdim = NoKDim
    /\ wcall = NoWrapCall
    /\ amg = NoAMG
    /\ run = NoRun

\* The preconditioner is set up before the solver is constructed from it: a
\* solver constructor copies the shared pointer to the generated instance, so
\* the preconditioner object's later history does not reach the solver.
Next ==
    \/ \E op \in Operators, ok \in BOOLEAN : built = "none" /\ PrecSetOperator(op, ok)
    \/ \E withPrec \in BOOLEAN : ConstructCG(withPrec, FALSE)
    \/ \E wi \in BOOLEAN, wp \in BOOLEAN, ig \in BOOLEAN :
          ConstructIR(wi, wp, ig, FALSE)
    \/ \E op \in Operators, ok \in BOOLEAN : SetOperator(op, ok)
    \/ \E nx \in 1..MaxDim, ny \in 1..MaxDim, it \in 0..MaxIters, hc \in BOOLEAN :
          Mult(nx, ny, it, hc, 0)

Spec == Init /\ [][Next]_vars

\* The solver seen through its Mult: iterative_mode as the caller chose it,
\* the print level set between calls and any residual norm reported by the
\* logger; a CGSolver or an IRSolver without preconditioner, on operators of
\* one sparsity pattern.  Spec above follows the bindings instead: there
\* iterative_mode stays false and the logger reports residual norm 0.
NextVerbose ==
    \/ \E im \in BOOLEAN : ConstructCG(FALSE, im)
    \/ ConstructIR(FALSE, FALSE, FALSE, FALSE)
    \/ \E op \in {o \in Operators : o.pat # "P2"}, ok \in BOOLEAN : SetOperator(op, ok)
    \/ \E nx \in 1..MaxDim, ny \in 1..MaxDim, it \in 0..MaxIters, hc \in BOOLEAN,
          res \in 0..MaxRes : Mult(nx, ny, it, hc, res)
    \/ \E p \in PrintLevels : SetPrintLevel(p)

SpecVerbose == Init /\ [][NextVerbose]_vars

\* No object of the bridge has been constructed.
NoBridgeObjects ==
    /\ numCuda = 0
    /\ numHip = 0
    /\ useCuda = FALSE
    /\ useHip = FALSE
    /\ executor = "null"
    /\ execCall = NoCall
    /\ precKind = "factory"
    /\ generated_precond = NullOp
    /\ has_generated_precond = FALSE
    /\ prec_applied = NoPrecMult
    /\ built = "none"
    /\ solver_gen = NoFactory
    /\ system_oper = NullOp
    /\ solver = NullSolver
    /\ needs_wrapped_vecs = FALSE
    /\ sub_op_needs_wrapped_vecs = FALSE
    /\ iterative_mode = FALSE
    /\ max_iter = DefaultMaxIter
    /\ print_level = DefaultPrintLevel
    /\ converged = Unset
    /\ final_iter = Unset
    /\ applied = NotApplied
    /\ last_set_op = NoOp
    /\ prior_kind = "none"
    /\ lastCall = NoSolverCall
    /\ loggers = NoLoggers
    /\ kdim = NoKDim

\* One apply of an OperatorWrapper: 1 x 1 scalar operands with any values on
\* any executor, any operator and vectors of one length.
InitApply ==
    /\ NoBridgeObjects
    /\ amg = NoAMG
    /\ run = NoRun
    /\ \E e \in WrapExecs, k \in OpKinds, n \in 1..MaxDim :
       \E alpha \in ScalarOperands({1}, WrapExecs),
          beta \in ScalarOperands({1}, WrapExecs),
          b \in Vectors(n), x \in Vectors(n), alias \in BOOLEAN :
            /\ alias => b = x
            /\ wcall = PendingCall(e, k, alpha, beta, b, x, alias)

NextApply ==
    \/ ApplyPlain
    \/ ApplyScaled

SpecApply == InitApply /\ [][NextApply]_vars

\* One apply with scalar operands of any size, on the host.
InitApplySize ==
    /\ NoBridgeObjects
    /\ amg = NoAMG
    /\ run = NoRun
    /\ \E k \in OpKinds :
       \E alpha \in ScalarOperands(0..MaxScalarDim, {"omp"}),
          beta \in ScalarOperands(0..MaxScalarDim, {"omp"}),
          b \in Vectors(1), x \in Vectors(1) :
            wcall = PendingCall("omp", k, alpha, beta, b, x, FALSE)

SpecApplySize == InitApplySize /\ [][NextApply]_vars


\* A GMRES or CB-GMRES solver whose Krylov dimension is set between
\* SetOperator calls.
NextKDim ==
    \/ \E method \in {"gmres", "cbgmres"}, dim \in 0..MaxKDim, withPrec \in BOOLEAN :
          ConstructGMRES(method, dim, withPrec, FALSE)
    \/ \E op \in Operators, ok \in BOOLEAN : SetOperator(op, ok)
    \/ \E d \in 0..MaxKDim : SetKDim(d)

SpecKDim == Init /\ [][NextKDim]_vars

\* An executor is constructed and an AMGPreconditioner on it.
InitAMG ==
    /\ NoBridgeObjects
    /\ wcall = NoWrapCall
    /\ amg = NoAMG
    /\ run = NoRun

NextAMG ==
    \/ \E t \in ExecTypes : ~amg.built /\ CreateExplicit(t)
    \/ \E smoother \in SmootherTypes, coarse \in SmootherTypes,
          mixed \in BOOLEAN, skip_sort \in BOOLEAN :
          ConstructAMG(smoother, coarse, mixed, skip_sort)

SpecAMG == InitAMG /\ [][NextAMG]_vars

\* One backend solve of a solver with any tolerances and iteration cap.
InitStop ==
    /\ NoBridgeObjects
    /\ wcall = NoWrapCall
    /\ amg = NoAMG
    /\ \E implicit \in BOOLEAN, rel_tol \in Tols, abs_tol \in Tols,
          cap \in 0..MaxCap, res0 \in 0..MaxRes :
          run = StartedRun(implicit, rel_tol, abs_tol, cap, res0)

NextStop ==
    \/ Halt
    \/ \E res \in 0..MaxRes : Iterate(res)

SpecStop == InitStop /\ [][NextStop]_vars

\* A solver and the preconditioner object it was constructed from, each with
\* its own SetOperator calls in any order, on operators of one sparsity
\* pattern.
NextBinding ==
    \/ \E op \in {o \in Operators : o.pat # "P2"}, ok \in BOOLEAN :
          PrecSetOperator(op, ok)
    \/ \E withPrec \in BOOLEAN : ConstructCG(withPrec, FALSE)
    \/ \E method \in {"gmres", "cbgmres"}, withPrec \in BOOLEAN :
          ConstructGMRES(method, 0, withPrec, FALSE)
    \/ \E op \in {o \in Operators : o.pat # "P2"}, ok \in BOOLEAN :
          SetOperator(op, ok)

SpecBinding == Init /\ [][NextBinding]_vars

\* A preconditioner object on its own: operators set and vectors applied in
\* any order.
NextPrec ==
    \/ \E op \in Operators, ok \in BOOLEAN : PrecSetOperator(op, ok)
    \/ \E nx \in 1..MaxDim, ny \in 1..MaxDim, im \in BOOLEAN : PrecMult(nx, ny, im)

SpecPrec == Init /\ [][NextPrec]_vars

-----------------------------------------------------------------------------
(* Properties *)

\* C1: every Mult that reaches the backend runs a solver generated against
\* the operator of the most recent SetOperator, and at no time is a handle or
\* a generated solver bound that was built from an earlier operator.
C1_MultUsesLatestOperator ==
    /\ applied.ran =>
          /\ solver.live
          /\ solver.lin.op = last_set_op
          /\ system_oper.op = last_set_op
    /\ solver.live => solver.lin = system_oper
    /\ system_oper.kind # "null" => system_oper.op = last_set_op

\* A Mult has run on a sparse operator that replaced a generic one.
C1_Witness ==
    /\ applied.ran
    /\ prior_kind = "wrap"
    /\ system_oper.kind = "csr"
    /\ solver.lin.op = last_set_op

\* C2: a solve on a matrix never uses a preconditioner instance that was
\* generated, before the solver was constructed, for a matrix of another shape
\* or pattern than the one the solver is bound to.
C2_NoSilentReuse ==
    (/\ applied.ran
     /\ solver_gen.precMode = "generated"
     /\ solver.prec.kind = "gko"
     /\ solver.lin.kind = "csr")
    => (/\ solver.prec.op.h = solver.lin.op.h
        /\ solver.prec.op.w = solver.lin.op.w
        /\ solver.prec.op.pat = solver.lin.op.pat)

\* C3: after every SetOperator that completes, needs_wrapped_vecs is (the
\* handle is a generic wrap) or sub_op_needs_wrapped_vecs; the flag is never
\* false while sub_op_needs_wrapped_vecs is true.
C3_FlagMatchesBinding ==
    /\ (lastCall.name = "SetOperator" /\ lastCall.err = "none") =>
          (needs_wrapped_vecs <=>
              (system_oper.kind = "wrap" \/ sub_op_needs_wrapped_vecs))
    /\ sub_op_needs_wrapped_vecs => needs_wrapped_vecs

\* SetOperator has replaced a generic operator by a sparse one and the flag
\* is back to false.
C3_Witness ==
    /\ lastCall.name = "SetOperator"
    /\ lastCall.err = "none"
    /\ prior_kind = "wrap"
    /\ system_oper.kind = "csr"
    /\ ~needs_wrapped_vecs

\* C4: a Mult that reaches the backend wraps x and y exactly when
\* needs_wrapped_vecs holds, and wraps them whenever the system operator or
\* the preconditioner of the solver (or of its inner solver) is an
\* OperatorWrapper.
C4_UniformWrapping ==
    applied.ran =>
        /\ applied.wrapped <=> needs_wrapped_vecs
        /\ (solver.lin.kind = "wrap" \/ solver.prec.kind = "wrap") => applied.wrapped

\* A Mult has run on a sparse operator with a wrapped MFEM preconditioner.
C4_Witness ==
    /\ applied.ran
    /\ solver.lin.kind = "csr"
    /\ solver.prec.kind = "wrap"
    /\ applied.wrapped

\* C5: a solve that does not converge returns normally at every print level,
\* with converged = 0, final_iter as the logger of this call reports it and
\* the last iterate in y.
C5_NonConvergenceNotFatal ==
    (applied.ran /\ ~applied.has_converged) =>
        /\ lastCall = Call("Mult", NoOp, "none")
        /\ converged = 0
        /\ final_iter = applied.num_iterations
        /\ applied.y = "iterate"

\* A solve at print level 2 has ended without convergence after an iteration.
C5_Witness ==
    /\ applied.ran
    /\ ~applied.has_converged
    /\ applied.num_iterations > 0
    /\ print_level = 2
    /\ applied.errOut = "No convergence!"

\* C6: a SetOperator that fails on a bound solver because the matrix is not
\* square leaves the handle, the generated solver and needs_wrapped_vecs as
\* they were.
C6_FailedSetOperatorKeepsState ==
    [][(/\ system_oper.kind # "null"
        /\ solver.live
        /\ lastCall'.name = "SetOperator"
        /\ lastCall'.err = "not_square")
       => (/\ system_oper' = system_oper
           /\ solver' = solver
           /\ needs_wrapped_vecs' = needs_wrapped_vecs)]_vars

\* C7: GinkgoPreconditioner::SetOperator with an operator that is not a
\* SparseMatrix fails, and no instance exists for that operator afterwards.
C7_GenericOperatorRejected ==
    (lastCall.name = "PrecSetOperator" /\ ~lastCall.op.sparse) =>
        /\ lastCall.err = "not_a_sparse_matrix"
        /\ generated_precond.kind = "null"
        /\ ~has_generated_precond

\* SetOperator of the preconditioner has been called with a generic operator.
C7_Witness ==
    /\ lastCall.name = "PrecSetOperator"
    /\ ~lastCall.op.sparse
    /\ lastCall.op \in GenericOperators

\* C8: a GinkgoPreconditioner::SetOperator that rejects a generic operator
\* leaves generated_precond and has_generated_precond as they were.
C8_RejectedSetOperatorKeepsInstance ==
    [][(/\ has_generated_precond
        /\ lastCall'.name = "PrecSetOperator"
        /\ lastCall'.err = "not_a_sparse_matrix")
       => (/\ generated_precond' = generated_precond
           /\ has_generated_precond' = has_generated_precond)]_vars

\* C9: GinkgoExecutor(CUDA) and GinkgoExecutor(HIP) fail, and hold no
\* executor, when the backend reports no device.
C9_ExplicitFailsWithoutDevices ==
    (/\ execCall.ctor = "explicit"
     /\ \/ execCall.exec_type = "CUDA" /\ numCuda = 0
        \/ execCall.exec_type = "HIP" /\ numHip = 0)
    => (execCall.result = "abort" /\ executor = "null")

\* C10: GinkgoExecutor(Device&) always returns; it takes CUDA when CUDA is
\* allowed and has a device, and a host executor when the accelerator it would
\* take reports no device.
C10_BestMatchFallsBack ==
    execCall.ctor = "bestmatch" =>
        /\ execCall.result = "returned"
        /\ (execCall.allowsCuda /\ numCuda > 0) => executor = "cuda"
        /\ (execCall.allowsCuda /\ numCuda = 0) => executor \in {"omp", "reference"}
        /\ (~execCall.allowsCuda /\ execCall.allowsHip /\ numHip = 0)
              => executor \in {"omp", "reference"}

\* C11: with distinct b and x, the scaled apply_impl leaves
\* x = alpha*Op(b) + beta*x_old for the values alpha and beta of its scalar
\* operands, wherever these live; with alpha = 1, beta = 0 that is the result
\* of the plain apply_impl, with alpha = 1, beta = 1 it is x_old + Op(b).
C11_ScaledApplyFormula ==
    (wcall.phase = "done" /\ wcall.impl = "scaled" /\ ~wcall.alias) =>
        /\ wcall.err = "none"
        /\ wcall.x_out = Added(Scaled(wcall.x, wcall.beta.val), wcall.alpha.val,
                               OperMult(wcall.oper, wcall.b))
        /\ (wcall.alpha.val = 1 /\ wcall.beta.val = 0) =>
              wcall.x_out = PlainResult(wcall.oper, wcall.b)
        /\ (wcall.alpha.val = 1 /\ wcall.beta.val = 1) =>
              wcall.x_out = Added(wcall.x, 1, OperMult(wcall.oper, wcall.b))

\* C12: a scaled apply with an alpha or beta that is not 1 x 1 ends with a
\* dimension error, the output vector as it was and the operator not applied.
C12_NonScalarRejected ==
    (/\ wcall.phase = "done"
     /\ wcall.impl = "scaled"
     /\ \/ <<wcall.alpha.rows, wcall.alpha.cols>> # <<1, 1>>
        \/ <<wcall.beta.rows, wcall.beta.cols>> # <<1, 1>>) =>
        /\ wcall.err = "bad_dimension"
        /\ wcall.x_out = wcall.x
        /\ wcall.oper_in = <<>>

\* C13: during a solve the loggers attached to the combined stopping criteria
\* and to the solver are those constructed by that Mult call, none from an
\* earlier call.
C13_OnlyFreshLoggers ==
    applied.ran =>
        /\ loggers.criteria \subseteq {"this"}
        /\ loggers.solver \subseteq {"this"}

\* C14: with relative and absolute tolerance 0 a solve halts at iteration
\* max_iter, whatever the residual norms are.
C14_HaltsAtCap ==
    (run.phase = "halted" /\ run.rel_tol = 0 /\ run.abs_tol = 0) =>
        run.iter = run.max_iter

\* C15: a mixed-precision AMGPreconditioner gives level 0 the double smoother
\* and coarsening factory and every further level a float smoother and a
\* float coarsening factory, neither of them null.
C15_MixedPrecisionLevels ==
    (amg.built /\ amg.use_mixed_prec) =>
        /\ LevelEntry(amg.precond_gen.pre_smoother, 0).prec = "double"
        /\ LevelEntry(amg.precond_gen.mg_level, 0).prec = "double"
        /\ \A level \in 1..MaxLevel :
              /\ LevelEntry(amg.precond_gen.pre_smoother, level) # NullGen
              /\ LevelEntry(amg.precond_gen.pre_smoother, level).prec = "float"
              /\ LevelEntry(amg.precond_gen.mg_level, level) # NullGen
              /\ LevelEntry(amg.precond_gen.mg_level, level).prec = "float"

\* C16: every AMGPreconditioner's multigrid factory has an iteration cap of 1
\* and the zero initial guess forced on.
C16_OneCycleZeroGuess ==
    amg.built =>
        /\ amg.precond_gen.max_iters = 1
        /\ amg.precond_gen.zero_guess

\* A double-precision AMGPreconditioner that skips sorting.
C16_Witness ==
    /\ amg.built
    /\ ~amg.use_mixed_prec
    /\ amg.skip_sort
    /\ amg.precond_gen.zero_guess

\* C17: a Mult on a solver without bound operator, or with x and y of
\* different lengths, ends with an error and leaves y, the loggers and the
\* solver's state as they were.
C17_FailedMultChangesNothing ==
    [][(/\ lastCall'.name = "Mult"
        /\ (lastCall' # lastCall \/ applied' # applied)
        /\ (system_oper.kind = "null" \/ applied'.mismatch))
       => /\ lastCall'.err \in {"not_initialized", "size_mismatch"}
          /\ applied'.y = "caller"
          /\ ~applied'.ran
          /\ UNCHANGED <<built, solver_gen, system_oper, solver, needs_wrapped_vecs,
                         sub_op_needs_wrapped_vecs, iterative_mode, max_iter,
                         print_level, converged, final_iter, loggers, kdim>>]_vars

\* A Mult has failed on a solver that was unbound by a failed SetOperator
\* and that zeroes y in a solve.
C17_Witness ==
    /\ lastCall.name = "Mult"
    /\ lastCall.err = "not_initialized"
    /\ prior_kind \in {"csr", "wrap"}
    /\ ~iterative_mode
    /\ applied.y = "caller"

\* C18: after SetKDim(d) the stored dimension and the factory's krylov_dim
\* are d, and so is the dimension of the generated solver, whether it was
\* generated before the call or by a later SetOperator.
C18_SetKDimReachesAll ==
    kdim.set # Unset =>
        /\ kdim.m = kdim.set
        /\ kdim.krylov_dim = kdim.set
        /\ solver.live => kdim.solver_dim = kdim.set

\* A solver generated by a SetOperator that followed SetKDim(1).
C18_Witness ==
    /\ kdim.set = 1
    /\ lastCall.name = "SetOperator"
    /\ solver.live
    /\ kdim.solver_dim = 1

\* C19: the backend solve receives y zeroed exactly when the solver is not
\* in iterative mode, and the caller's y otherwise.
C19_ZeroedUnlessIterative ==
    applied.y0 # "none" =>
        /\ applied.y0 = "zero" <=> ~iterative_mode
        /\ iterative_mode => applied.y0 = "caller"

\* A solve has run in iterative mode.
C19_Witness ==
    /\ applied.ran
    /\ iterative_mode
    /\ applied.y0 = "caller"

\* C20: the final residual norm of a Mult is the square root of the logged
\* implicit squared residual norm in implicit mode, and the logged residual
\* norm in explicit mode.
C20_FinalResidualNorm ==
    applied.ran =>
        applied.final_res_norm = IF UseImplicitResNorm
                                 THEN Sqrt(applied.imp_sq)
                                 ELSE applied.res_norm

\* C21: in both residual modes the combined criterion holds exactly three
\* criteria, whose parameters are the configured values: the relative one
\* has reduction factor rel_tol against the initial residual, the absolute
\* one threshold abs_tol, the iteration cap max_iter.
C21_ConfiguredThresholds ==
    run.phase # "none" =>
        /\ Len(CombinedCriteria(run)) = 3
        /\ CombinedCriteria(run)[1] =
              [kind |-> "relative", baseline |-> "initial_resnorm", param |-> run.rel_tol]
        /\ CombinedCriteria(run)[2] =
              [kind |-> "absolute", baseline |-> "absolute", param |-> run.abs_tol]
        /\ CombinedCriteria(run)[3] =
              [kind |-> "iteration", baseline |-> "none", param |-> run.max_iter]

\* C22: a solver constructed with a preconditioner takes the generated
\* instance when HasGeneratedPreconditioner() holds at construction and the
\* factory otherwise; no later SetOperator, on the preconditioner or on the
\* solver, changes the mode or what the solver factory stores, and every
\* solver generated later holds the stored instance (generated mode) or a
\* preconditioner generated for its own system operator (factory mode).
C22_OneBindingMode ==
    [][/\ (built = "none" /\ built' # "none" /\ solver_gen'.precMode # "none") =>
             /\ solver_gen'.precMode =
                   IF has_generated_precond THEN "generated" ELSE "factory"
             /\ solver_gen'.prec =
                   IF has_generated_precond THEN generated_precond ELSE NullOp
       /\ built # "none" => solver_gen' = solver_gen
       /\ (solver'.live /\ solver_gen'.precMode = "generated") =>
             solver'.prec = solver_gen'.prec
       /\ (solver'.live /\ solver_gen'.precMode = "factory") =>
             solver'.prec = Generated(solver'.lin)]_vars

\* A solver built in generated-instance mode has generated a solver after
\* the preconditioner object was given another operator.
C22_Witness ==
    /\ built \in {"cg", "gmres", "cbgmres"}
    /\ solver_gen.precMode = "generated"
    /\ has_generated_precond
    /\ generated_precond # solver_gen.prec
    /\ lastCall.name = "SetOperator"
    /\ solver.live
    /\ solver.prec = solver_gen.prec

\* C26: SetKDim(d) leaves the factory with the Krylov dimension that a
\* construction with dimension d leaves it with, for every d (0 included),
\* and a solver generated afterwards has that dimension.
C26_SetKDimAsConstructed ==
    kdim.set # Unset =>
        /\ kdim.krylov_dim = FactoryKDim(kdim.set)
        /\ (lastCall.name = "SetOperator" /\ solver.live) =>
              kdim.solver_dim = FactoryKDim(kdim.set)

\* C23: a solver constructed with a generated preconditioner that is an
\* OperatorWrapper, and an IRSolver constructed over an inner solver whose
\* UsesVectorWrappers() holds, have needs_wrapped_vecs and
\* sub_op_needs_wrapped_vecs true, from construction on and after every
\* SetOperator.
C23_WrappingPropagates ==
    /\ (built # "none" /\ solver_gen.precMode = "generated"
                       /\ solver_gen.prec.kind = "wrap") =>
          (needs_wrapped_vecs /\ sub_op_needs_wrapped_vecs)
    /\ (built = "ir" /\ solver_gen.inner # "none" /\ solver_gen.inner_generic) =>
          (needs_wrapped_vecs /\ sub_op_needs_wrapped_vecs)

\* An IRSolver over an inner solver that was bound to a generic operator
\* and has no preconditioner, after SetOperator has replaced a generic
\* operator of its own by a sparse one.
C23_Witness ==
    /\ built = "ir"
    /\ solver_gen.inner_generic
    /\ solver_gen.precMode = "none"
    /\ lastCall.name = "SetOperator"
    /\ lastCall.err = "none"
    /\ prior_kind = "wrap"
    /\ system_oper.kind = "csr"
    /\ needs_wrapped_vecs
    /\ sub_op_needs_wrapped_vecs

\* C24: the scaled apply reads a scalar directly exactly when the scalar's
\* own executor is its master, and otherwise through a one-element copy
\* whose source is the executor on which the scalar resides; the value used
\* is the scalar's.
C24_CopyFromScalarsExecutor ==
    (wcall.phase = "done" /\ wcall.impl = "scaled" /\ wcall.err = "none") =>
        /\ (wcall.alpha_src = "direct") <=> (wcall.alpha.exec = Master(wcall.alpha.exec))
        /\ (wcall.beta_src = "direct") <=> (wcall.beta.exec = Master(wcall.beta.exec))
        /\ wcall.alpha_src # "direct" => wcall.alpha_src = wcall.alpha.exec
        /\ wcall.beta_src # "direct" => wcall.beta_src = wcall.beta.exec
        /\ wcall.alpha_f = wcall.alpha.val
        /\ wcall.beta_f = wcall.beta.val

\* C29: when b and x are one vector, the scaled apply leaves
\* alpha * Op(b_old) + beta * x_old in it, for the scalar values it read.
C29_AliasedScaledApply ==
    (wcall.phase = "done" /\ wcall.impl = "scaled" /\ wcall.err = "none"
                          /\ wcall.alias) =>
        wcall.x_out = Added(Scaled(wcall.x, wcall.beta_f), wcall.alpha_f,
                            OperMult(wcall.oper, wcall.b))

\* C25: a Mult of the preconditioner that reaches the generated instance
\* hands x and y on as wrapped vectors exactly when the instance is an
\* OperatorWrapper, so that the instance can apply them, and zeroes y first
\* exactly when iterative_mode is false.
C25_PrecMultWrapping ==
    prec_applied.called =>
        /\ prec_applied.wrapped <=> (generated_precond.kind = "wrap")
        /\ prec_applied.err # "not_supported"
        /\ (prec_applied.y0 = "zero") <=> ~prec_applied.iterative_mode

\* C27: between the public operations of a solver, whatever SetOperator and
\* Mult calls came before and however they ended, the generated solver is
\* non-null exactly when the system operator handle is non-null.
C27_SolverIffOperator ==
    built # "none" => (solver.live <=> system_oper.kind # "null")

\* C28: after construction and after every SetOperator of the
\* preconditioner, completed or failed, has_generated_precond holds exactly
\* when generated_precond is non-null.
C28_FlagIffInstance ==
    has_generated_precond <=> (generated_precond.kind # "null")

\* SetOperator has failed in the backend on a preconditioner that had an
\* instance (one that a Mult had applied).
C28_Witness ==
    /\ precKind = "factory"
    /\ prec_applied.called
    /\ lastCall.name = "PrecSetOperator"
    /\ lastCall.err = "backend_exception"
    /\ ~has_generated_precond
    /\ generated_precond.kind = "null"

\* C30: a GinkgoExecutor constructor that returns holds a non-null backend
\* executor, for every ExecType, device configuration, build and device
\* count.
C30_ReturnedExecutorNonNull ==
    execCall.result = "returned" => executor # "null"

====
